---- MODULE Spec2Model ----
(***************************************************************************)
(* The in-memory workflow repositories of api/core/repositories:           *)
(*   InMemoryWorkflowNodeExecutionRepository  (primary map + run index)     *)
(*   InMemoryWorkflowExecutionRepository      (primary map)                 *)
(* Each public method is one action; every read is also an operator on the  *)
(* current state.  Python's Optional[X] is a sequence of length 0 or 1, a   *)
(* dict is a function whose DOMAIN is the set of keys, a list is a sequence.*)
(***************************************************************************)
EXTENDS Integers, Sequences, FiniteSets, TLC

VARIABLES
    executions,          \* node store: self._executions, node_execution_id -> record
    workflow_run_index,  \* node store: self._workflow_run_index, run id -> list of ids
    wf_executions,       \* execution store: self._executions, id_ -> record
    saved,               \* history: node id -> the record of its latest save since the last clear
    wf_saved,            \* history: execution id -> the record of its latest save
    last,                \* the latest call: its name, arguments, outcome and return value
    executions_b,        \* a second node store instance: its self._executions
    workflow_run_index_b, \* a second node store instance: its self._workflow_run_index
    wf_executions_b,     \* a second execution store instance: its self._executions
    scope,               \* node store: the context fields set by __init__ (Optional: <<>> = no instance)
    wf_scope,            \* execution store: the context fields set by __init__ (Optional)
    pc,                  \* per thread: the statement of save / clear it is about to run
    hand,                \* per saving thread: the record passed to its save (Optional)
    lock,                \* the thread holding the store's lock, "" if none
    raced,               \* history: a thread passed the membership test of line 93 while another was between that test and its append
    cut                  \* history: a statement of clear() ran while a save was under way

storeB == <<executions_b, workflow_run_index_b, wf_executions_b>>
scopes == <<scope, wf_scope>>
threads == <<pc, hand, lock, raced, cut>>

vars == <<executions, workflow_run_index, wf_executions, saved, wf_saved, last,
          executions_b, workflow_run_index_b, wf_executions_b, scope, wf_scope,
          pc, hand, lock, raced, cut>>

(***************************************************************************)
(* Bounds and input domains                                                *)
(***************************************************************************)
NumNodes == 2
NumExecs == 2
MaxIndex == 2

IdNames == <<"n1", "n2", "n3", "n4", "n5", "n6">>
ExecNames == <<"e1", "e2", "e3", "e4", "e5", "e6">>
NodeIds == {IdNames[i] : i \in 1..NumNodes}
ExecIds == {ExecNames[i] : i \in 1..NumExecs}
RunIds == {"r1", "r2"}
Indexes == 0..MaxIndex

\* WorkflowNodeExecutionStatus / WorkflowExecutionStatus members used by the stores
RUNNING == "running"
SUCCEEDED == "succeeded"
Statuses == {RUNNING, SUCCEEDED}

\* NodeType members (a string enum: ordered by value)
NodeTypes == {"llm", "start"}

\* None, where an Optional[str] attribute or argument holds it
None == "None"

\* Python truthiness of a string-valued attribute: None and "" are both falsy.
Truthy(s) == s # "" /\ s # None

\* finished_at values (datetime), as Optional: <<>> is None
TimeStamps == {1, 2}

NodeRecord(id, run, idx, typ, st) ==
    [node_execution_id |-> id, workflow_execution_id |-> run, index |-> idx,
     node_type |-> typ, status |-> st,
     predecessor_node_id |-> None, finished_at |-> <<>>]

\* records saved under Spec: identity and run vary (also empty)
NodeRecords ==
    {NodeRecord(id, run, 1, "llm", RUNNING) :
        id \in NodeIds \cup {""}, run \in RunIds \cup {""}}

(***************************************************************************)
(* Order configuration: OrderConfig(order_by, order_direction)             *)
(***************************************************************************)
OrderConfig(by, dir) == [order_by |-> by, order_direction |-> dir]
NoOrder == <<>>

(***************************************************************************)
(* dict helpers                                                            *)
(***************************************************************************)
EmptyDict == <<>>

DictSet(d, k, v) == [x \in DOMAIN d \cup {k} |-> IF x = k THEN v ELSE d[x]]

\* dict.get(k): Optional
DictGet(d, k) == IF k \in DOMAIN d THEN <<d[k]>> ELSE <<>>

\* dict.get(k, [])
BucketOf(idx, k) == IF k \in DOMAIN idx THEN idx[k] ELSE <<>>

InList(x, s) == \E i \in 1..Len(s) : s[i] = x

(***************************************************************************)
(* InMemoryWorkflowNodeExecutionRepository                                 *)
(***************************************************************************)
MatchesConstraints(execution) == TRUE

\* save without the assignment of line 86
SaveExecutionsOmitted(ex, r) == ex

\* save, the primary-map assignment
SaveExecutions(ex, r) ==
    IF Truthy(r.node_execution_id)
    THEN DictSet(ex, r.node_execution_id, r)
    ELSE ex

\* SaveIndex without the membership test of line 93
SaveIndexAlwaysAppends(idx, r) ==
    IF Truthy(r.node_execution_id) /\ Truthy(r.workflow_execution_id)
    THEN LET k == r.workflow_execution_id
             withBucket == IF k \in DOMAIN idx THEN idx ELSE DictSet(idx, k, <<>>)
         IN  DictSet(withBucket, k, Append(withBucket[k], r.node_execution_id))
    ELSE idx

\* SaveIndex that puts a new id in front: insert(0, ...) for append(...)
SaveIndexPrepends(idx, r) ==
    IF Truthy(r.node_execution_id) /\ Truthy(r.workflow_execution_id)
    THEN LET k == r.workflow_execution_id
             withBucket == IF k \in DOMAIN idx THEN idx ELSE DictSet(idx, k, <<>>)
         IN  IF InList(r.node_execution_id, withBucket[k])
             THEN withBucket
             ELSE DictSet(withBucket, k, <<r.node_execution_id>> \o withBucket[k])
    ELSE idx

\* SaveIndex that also indexes a record of no run (no test of line 89)
SaveIndexIgnoresRun(idx, r) ==
    IF Truthy(r.node_execution_id)
    THEN LET k == r.workflow_execution_id
             withBucket == IF k \in DOMAIN idx THEN idx ELSE DictSet(idx, k, <<>>)
         IN  IF InList(r.node_execution_id, withBucket[k])
             THEN withBucket
             ELSE DictSet(withBucket, k, Append(withBucket[k], r.node_execution_id))
    ELSE idx

\* SaveIndex outside the identity test of line 85
SaveIndexIgnoresIdentity(idx, r) ==
    IF Truthy(r.workflow_execution_id)
    THEN LET k == r.workflow_execution_id
             withBucket == IF k \in DOMAIN idx THEN idx ELSE DictSet(idx, k, <<>>)
         IN  IF InList(r.node_execution_id, withBucket[k])
             THEN withBucket
             ELSE DictSet(withBucket, k, Append(withBucket[k], r.node_execution_id))
    ELSE idx

\* SaveIndex that creates the bucket before the identity test of line 85
SaveIndexBucketBeforeIdentity(idx, r) ==
    IF Truthy(r.workflow_execution_id)
    THEN LET k == r.workflow_execution_id
             withBucket == IF k \in DOMAIN idx THEN idx ELSE DictSet(idx, k, <<>>)
         IN  IF ~Truthy(r.node_execution_id) \/ InList(r.node_execution_id, withBucket[k])
             THEN withBucket
             ELSE DictSet(withBucket, k, Append(withBucket[k], r.node_execution_id))
    ELSE idx

\* save, the index update
SaveIndex(idx, r) ==
    IF Truthy(r.node_execution_id) /\ Truthy(r.workflow_execution_id)
    THEN LET k == r.workflow_execution_id
             withBucket == IF k \in DOMAIN idx THEN idx ELSE DictSet(idx, k, <<>>)
         IN  IF InList(r.node_execution_id, withBucket[k])
             THEN withBucket
             ELSE DictSet(withBucket, k, Append(withBucket[k], r.node_execution_id))
    ELSE idx

GetByNodeExecutionId(ex, id) ==
    LET execution == DictGet(ex, id)
    IN  IF execution # <<>> /\ MatchesConstraints(execution[1])
        THEN execution
        ELSE <<>>

\* RunResult without the comparison of line 160
RECURSIVE CollectUnfiltered(_, _)
CollectUnfiltered(ex, ids) ==
    IF ids = <<>> THEN <<>>
    ELSE LET execution == DictGet(ex, Head(ids))
         IN  execution \o CollectUnfiltered(ex, Tail(ids))

RunResultUnfiltered(ex, idx, k) == CollectUnfiltered(ex, BucketOf(idx, k))

\* get_by_workflow_run, lines 150-161: the unordered result list
RECURSIVE Collect(_, _, _)
Collect(ex, ids, k) ==
    IF ids = <<>> THEN <<>>
    ELSE LET execution == DictGet(ex, Head(ids))
             rest == Collect(ex, Tail(ids), k)
         IN  IF /\ execution # <<>>
                /\ MatchesConstraints(execution[1])
                /\ execution[1].workflow_execution_id = k
             THEN <<execution[1]>> \o rest
             ELSE rest

RunResult(ex, idx, k) == Collect(ex, BucketOf(idx, k), k)

(***************************************************************************)
(* The sort of get_by_workflow_run, lines 163-170                          *)
(***************************************************************************)
\* every string a sort key can be, in Python's str order
StrOrder == <<"", "llm", "n1", "n2", "n3", "n4", "n5", "n6",
              "r1", "r2", "running", "start", "succeeded">>
StrRank(s) == CHOOSE i \in 1..Len(StrOrder) : StrOrder[i] = s

IntFields == {"index"}
TimeFields == {"finished_at"}
StrKey(s) == [tag |-> "str", rank |-> StrRank(s)]
IntKey(n) == [tag |-> "int", rank |-> n]
TimeKey(t) == [tag |-> "datetime", rank |-> t]

\* key=lambda x: getattr(x, sort_field, "") or ""
SortKey(x, sort_field) ==
    IF sort_field \notin DOMAIN x THEN StrKey("")
    ELSE IF sort_field \in IntFields
         THEN (IF x[sort_field] = 0 THEN StrKey("") ELSE IntKey(x[sort_field]))
    ELSE IF sort_field \in TimeFields
         THEN (IF x[sort_field] = <<>> THEN StrKey("") ELSE TimeKey(x[sort_field][1]))
         ELSE (IF Truthy(x[sort_field]) THEN StrKey(x[sort_field]) ELSE StrKey(""))

\* a < b on two keys of one type; str against int or datetime raises TypeError
KeyLess(a, b) == a.rank < b.rank

\* list.sort compares keys of the whole list: it raises as soon as two of
\* them are of different types
SortRaises(result, sort_field) ==
    \E i, j \in 1..Len(result) :
        SortKey(result[i], sort_field).tag # SortKey(result[j], sort_field).tag

Reverse(s) == [i \in 1..Len(s) |-> s[Len(s) + 1 - i]]

\* stable insertion: x goes behind every element whose key is not greater
RECURSIVE InsertByKey(_, _, _)
InsertByKey(sorted, x, sort_field) ==
    IF sorted = <<>> THEN <<x>>
    ELSE IF KeyLess(SortKey(x, sort_field), SortKey(Head(sorted), sort_field))
         THEN <<x>> \o sorted
         ELSE <<Head(sorted)>> \o InsertByKey(Tail(sorted), x, sort_field)

RECURSIVE StableSort(_, _)
StableSort(s, sort_field) ==
    IF s = <<>> THEN <<>>
    ELSE InsertByKey(StableSort(SubSeq(s, 1, Len(s) - 1), sort_field),
                     s[Len(s)], sort_field)

\* ListSort whose reverse= turns the sorted list round
ListSortReversesResult(result, sort_field, is_desc) ==
    IF is_desc
    THEN Reverse(StableSort(result, sort_field))
    ELSE StableSort(result, sort_field)

\* ListSort that ignores reverse=
ListSortAscendingOnly(result, sort_field, is_desc) == StableSort(result, sort_field)

\* list.sort(key=..., reverse=is_desc): with reverse the list is reversed,
\* sorted stably, and reversed again, so equal keys keep their order
ListSort(result, sort_field, is_desc) ==
    IF is_desc
    THEN Reverse(StableSort(Reverse(result), sort_field))
    ELSE StableSort(result, sort_field)

\* SortPasses without reversed(): for sort_field in order_config.order_by
RECURSIVE SortPassesForward(_, _, _)
SortPassesForward(result, order_by, is_desc) ==
    IF order_by = <<>> THEN result
    ELSE SortPassesForward(ListSort(result, Head(order_by), is_desc),
                           Tail(order_by), is_desc)

\* for sort_field in reversed(order_config.order_by): result.sort(...)
RECURSIVE SortPasses(_, _, _)
SortPasses(result, order_by, is_desc) ==
    IF order_by = <<>> THEN result
    ELSE SortPasses(ListSort(result, order_by[Len(order_by)], is_desc),
                    SubSeq(order_by, 1, Len(order_by) - 1), is_desc)

OrderRaises(result, order_by) ==
    \E i \in 1..Len(order_by) : SortRaises(result, order_by[i])

\* get_by_workflow_run: [err, ret]; err is "" or the exception raised
GetByWorkflowRun(ex, idx, k, order_config) ==
    LET result == RunResult(ex, idx, k)
    IN  IF order_config # <<>> /\ order_config[1].order_by # <<>>
        THEN LET is_desc == order_config[1].order_direction = "desc"
             IN  IF OrderRaises(result, order_config[1].order_by)
                 THEN [err |-> "TypeError", ret |-> <<>>]
                 ELSE [err |-> "",
                       ret |-> SortPasses(result, order_config[1].order_by, is_desc)]
        ELSE [err |-> "", ret |-> result]

\* get_running_executions without the status filter of line 188
GetRunningUnfiltered(ex, idx, k) == GetByWorkflowRun(ex, idx, k, NoOrder).ret

\* get_running_executions
GetRunningExecutions(ex, idx, k) ==
    LET all_executions == GetByWorkflowRun(ex, idx, k, NoOrder).ret
    IN  SelectSeq(all_executions, LAMBDA execution : execution.status = RUNNING)

(***************************************************************************)
(* InMemoryWorkflowExecutionRepository                                     *)
(***************************************************************************)
ExecRecord(id, st) == [id_ |-> id, status |-> st]
ExecRecords == {ExecRecord(id, st) : id \in ExecIds \cup {""}, st \in Statuses}

WfMatchesConstraints(execution) == TRUE

\* WfSaveExecutions that keeps the record already stored (setdefault)
WfSaveKeepsFirst(ex, e) ==
    IF Truthy(e.id_) /\ e.id_ \notin DOMAIN ex THEN DictSet(ex, e.id_, e) ELSE ex

\* a save that replaces the dictionary by one holding the new record only
WfSaveForgetsOthers(ex, e) ==
    IF Truthy(e.id_) THEN DictSet(EmptyDict, e.id_, e) ELSE ex

\* save (execution store), lines 80-82
WfSaveExecutions(ex, e) ==
    IF Truthy(e.id_) THEN DictSet(ex, e.id_, e) ELSE ex

WfGet(ex, id) ==
    LET execution == DictGet(ex, id)
    IN  IF execution # <<>> /\ WfMatchesConstraints(execution[1])
        THEN execution
        ELSE <<>>

(***************************************************************************)
(* Construction: the caller identity and the scope fields of __init__      *)
(***************************************************************************)
ACCOUNT == "account"
END_USER == "end_user"

\* an Account carries current_tenant_id, an EndUser carries tenant_id; the
\* attribute the class does not carry reads None here
Account(id, current_tenant_id) ==
    [kind |-> ACCOUNT, id |-> id, tenant_id |-> None,
     current_tenant_id |-> current_tenant_id]
EndUser(id, tenant_id) ==
    [kind |-> END_USER, id |-> id, tenant_id |-> tenant_id,
     current_tenant_id |-> None]

\* __init__ that reads current_tenant_id whatever the class of the user
TenantFromCurrentOnly(user) == user.current_tenant_id

\* user.tenant_id if isinstance(user, EndUser) else user.current_tenant_id
TenantOf(user) ==
    IF user.kind = END_USER THEN user.tenant_id ELSE user.current_tenant_id

\* __init__ that gives every creator the role of an account
RoleAlwaysAccount(user) == ACCOUNT

\* CreatorUserRole.ACCOUNT if isinstance(user, Account) else CreatorUserRole.END_USER
RoleOf(user) == IF user.kind = ACCOUNT THEN ACCOUNT ELSE END_USER

\* the context fields __init__ sets; <<>> when it raises ValueError
ConstructScope(user, app_id, triggered_from) ==
    IF ~Truthy(TenantOf(user))
    THEN <<>>
    ELSE <<[tenant_id |-> TenantOf(user),
            app_id |-> app_id,
            triggered_from |-> triggered_from,
            creator_user_id |-> user.id,
            creator_user_role |-> RoleOf(user)]>>

\* the identity the stores of Init were constructed with
FixtureUser == Account("u1", "t1")
FixtureScope == ConstructScope(FixtureUser, "app1", "workflow-run")

(***************************************************************************)
(* Threads calling one node store                                          *)
(***************************************************************************)
Savers == {"s1", "s2"}
Clearer == "c"
Reader == "g"
Threads == Savers \cup {Clearer, Reader}

(***************************************************************************)
(* Calls                                                                   *)
(***************************************************************************)
\* count: the number clear() logs (len(self._executions) before clearing), else 0
\* on: the instance called ("a", or "b" for the second node store)
Call(op, key, order, arg, err, ret) ==
    [op |-> op, key |-> key, order |-> order, arg |-> arg, err |-> err, ret |-> ret,
     count |-> 0, on |-> "a"]

\* history of the calls: the record most recently passed to save, per identity
Remember(h, id, r) == IF Truthy(id) THEN DictSet(h, id, r) ELSE h

\* a save that stops after the assignment of line 86
SaveStopsAfterUpsert(r) ==
    /\ executions' = SaveExecutions(executions, r)
    /\ saved' = Remember(saved, r.node_execution_id, r)
    /\ last' = Call("save", r.node_execution_id, NoOrder, <<r>>, "", <<>>)
    /\ UNCHANGED <<workflow_run_index, wf_executions, wf_saved, storeB, scopes, threads>>

Save(r) ==
    /\ executions' = SaveExecutions(executions, r)
    /\ workflow_run_index' = SaveIndex(workflow_run_index, r)
    /\ saved' = Remember(saved, r.node_execution_id, r)
    /\ last' = Call("save", r.node_execution_id, NoOrder, <<r>>, "", <<>>)
    /\ UNCHANGED <<wf_executions, wf_saved, storeB, scopes, threads>>

ReadNodeExecution(id) ==
    /\ last' = Call("get_by_node_execution_id", id, NoOrder, <<>>, "",
                    GetByNodeExecutionId(executions, id))
    /\ UNCHANGED <<executions, workflow_run_index, wf_executions, saved, wf_saved,
                   storeB, scopes, threads>>

\* get_by_workflow_run over setdefault(k, []) for get(k, []) at line 153
ReadWorkflowRunCreatesBucket(k, order_config) ==
    /\ LET got == GetByWorkflowRun(executions, workflow_run_index, k, order_config)
       IN  last' = Call("get_by_workflow_run", k, order_config, <<>>, got.err, got.ret)
    /\ workflow_run_index' =
          IF k \in DOMAIN workflow_run_index
          THEN workflow_run_index
          ELSE DictSet(workflow_run_index, k, <<>>)
    /\ UNCHANGED <<executions, wf_executions, saved, wf_saved, storeB, scopes, threads>>

ReadWorkflowRun(k, order_config) ==
    /\ LET got == GetByWorkflowRun(executions, workflow_run_index, k, order_config)
       IN  last' = Call("get_by_workflow_run", k, order_config, <<>>, got.err, got.ret)
    /\ UNCHANGED <<executions, workflow_run_index, wf_executions, saved, wf_saved,
                   storeB, scopes, threads>>

ReadRunning(k) ==
    /\ last' = Call("get_running_executions", k, NoOrder, <<>>, "",
                    GetRunningExecutions(executions, workflow_run_index, k))
    /\ UNCHANGED <<executions, workflow_run_index, wf_executions, saved, wf_saved,
                   storeB, scopes, threads>>

\* clear() that forgets self._workflow_run_index.clear()
ClearKeepsIndex ==
    /\ executions' = EmptyDict
    /\ saved' = EmptyDict
    /\ last' = [Call("clear", "", NoOrder, <<>>, "", <<>>)
                    EXCEPT !.count = Cardinality(DOMAIN executions)]
    /\ UNCHANGED <<workflow_run_index, wf_executions, wf_saved, storeB, scopes, threads>>

\* clear() over dictionaries that are class attributes, shared by every instance
ClearGlobal ==
    /\ executions' = EmptyDict
    /\ workflow_run_index' = EmptyDict
    /\ executions_b' = EmptyDict
    /\ workflow_run_index_b' = EmptyDict
    /\ saved' = EmptyDict
    /\ last' = [Call("clear", "", NoOrder, <<>>, "", <<>>)
                    EXCEPT !.count = Cardinality(DOMAIN executions)]
    /\ UNCHANGED <<wf_executions, wf_saved, wf_executions_b, scopes, threads>>

Clear ==
    /\ executions' = EmptyDict
    /\ workflow_run_index' = EmptyDict
    /\ saved' = EmptyDict
    /\ last' = [Call("clear", "", NoOrder, <<>>, "", <<>>)
                    EXCEPT !.count = Cardinality(DOMAIN executions)]
    /\ UNCHANGED <<wf_executions, wf_saved, storeB, scopes, threads>>

\* a save into a dictionary that is a class attribute, shared by the instances
SaveBShared(r) ==
    /\ executions_b' = SaveExecutions(executions_b, r)
    /\ workflow_run_index_b' = SaveIndex(workflow_run_index_b, r)
    /\ executions' = SaveExecutions(executions, r)
    /\ workflow_run_index' = SaveIndex(workflow_run_index, r)
    /\ last' = [Call("save", r.node_execution_id, NoOrder, <<r>>, "", <<>>)
                    EXCEPT !.on = "b"]
    /\ UNCHANGED <<saved, wf_executions, wf_saved, wf_executions_b, scopes, threads>>

\* the same methods called on the second instance, whose dictionaries are
\* the ones its own __init__ created (lines 68 and 72)
SaveB(r) ==
    /\ executions_b' = SaveExecutions(executions_b, r)
    /\ workflow_run_index_b' = SaveIndex(workflow_run_index_b, r)
    /\ last' = [Call("save", r.node_execution_id, NoOrder, <<r>>, "", <<>>)
                    EXCEPT !.on = "b"]
    /\ UNCHANGED <<executions, workflow_run_index, saved, wf_executions, wf_saved,
                   wf_executions_b, scopes, threads>>

ReadNodeExecutionB(id) ==
    /\ last' = [Call("get_by_node_execution_id", id, NoOrder, <<>>, "",
                     GetByNodeExecutionId(executions_b, id))
                    EXCEPT !.on = "b"]
    /\ UNCHANGED <<executions, workflow_run_index, saved, wf_executions, wf_saved,
                   storeB, scopes, threads>>

ReadWorkflowRunB(k, order_config) ==
    /\ LET got == GetByWorkflowRun(executions_b, workflow_run_index_b, k, order_config)
       IN  last' = [Call("get_by_workflow_run", k, order_config, <<>>, got.err, got.ret)
                       EXCEPT !.on = "b"]
    /\ UNCHANGED <<executions, workflow_run_index, saved, wf_executions, wf_saved,
                   storeB, scopes, threads>>

ClearB ==
    /\ executions_b' = EmptyDict
    /\ workflow_run_index_b' = EmptyDict
    /\ last' = [Call("clear", "", NoOrder, <<>>, "", <<>>)
                    EXCEPT !.count = Cardinality(DOMAIN executions_b), !.on = "b"]
    /\ UNCHANGED <<executions, workflow_run_index, saved, wf_executions, wf_saved,
                   wf_executions_b, scopes, threads>>

WfSave(e) ==
    /\ wf_executions' = WfSaveExecutions(wf_executions, e)
    /\ wf_saved' = Remember(wf_saved, e.id_, e)
    /\ last' = Call("wf_save", e.id_, NoOrder, <<e>>, "", <<>>)
    /\ UNCHANGED <<executions, workflow_run_index, saved, storeB, scopes, threads>>

WfRead(id) ==
    /\ last' = Call("wf_get", id, NoOrder, <<>>, "", WfGet(wf_executions, id))
    /\ UNCHANGED <<executions, workflow_run_index, wf_executions, saved, wf_saved,
                   storeB, scopes, threads>>

\* the arguments of a constructor call
InitArgs(user, app_id, triggered_from) ==
    [user |-> user, app_id |-> app_id, triggered_from |-> triggered_from]

\* InMemoryWorkflowNodeExecutionRepository(user, app_id, triggered_from): the
\* store called from now on is the one this call returns; no store if it raises
NewNodeStore(user, app_id, triggered_from) ==
    LET made == ConstructScope(user, app_id, triggered_from)
    IN  /\ scope' = made
        /\ executions' = EmptyDict
        /\ workflow_run_index' = EmptyDict
        /\ saved' = EmptyDict
        /\ last' = Call("__init__", "", NoOrder,
                        <<InitArgs(user, app_id, triggered_from)>>,
                        IF made = <<>> THEN "ValueError" ELSE "", made)
        /\ UNCHANGED <<wf_executions, wf_saved, wf_scope, storeB, threads>>

\* InMemoryWorkflowExecutionRepository(user, app_id, triggered_from)
NewWfStore(user, app_id, triggered_from) ==
    LET made == ConstructScope(user, app_id, triggered_from)
    IN  /\ wf_scope' = made
        /\ wf_executions' = EmptyDict
        /\ wf_saved' = EmptyDict
        /\ last' = Call("wf__init__", "", NoOrder,
                        <<InitArgs(user, app_id, triggered_from)>>,
                        IF made = <<>> THEN "ValueError" ELSE "", made)
        /\ UNCHANGED <<executions, workflow_run_index, saved, scope, storeB, threads>>

(***************************************************************************)
(* The factories                                                           *)
(***************************************************************************)
MEMORY == "memory"
SQL == "sql"

\* the values of the repository mode setting
Modes == {"memory", "MEMORY", "Memory", "sql", "SQL", "db", "redis"}

\* a comparison of the setting as it is written
LowerOmitted(s) == s

\* str.lower() on the values of Modes
Lower(s) ==
    CASE s = "MEMORY" -> "memory"
      [] s = "Memory" -> "memory"
      [] s = "SQL" -> "sql"
      [] OTHER -> s

\* the store a factory returns: its class and the arguments it was given
MemoryStore(user, app_id, triggered_from) ==
    [backend |-> "memory", session_factory |-> None,
     user |-> user, app_id |-> app_id, triggered_from |-> triggered_from]
SQLAlchemyStore(session_factory, user, app_id, triggered_from) ==
    [backend |-> "sqlalchemy", session_factory |-> session_factory,
     user |-> user, app_id |-> app_id, triggered_from |-> triggered_from]

\* create_workflow_execution_repository; setting is <<>> when DifyConfig has
\* no WORKFLOW_EXECUTION_REPO_MODE.  last.key is the class chosen.
CreateWorkflowExecutionRepository(setting, session_factory, user, app_id, triggered_from) ==
    LET repo_mode == IF setting # <<>> THEN Lower(setting[1]) ELSE "db"
        made == ConstructScope(user, app_id, triggered_from)
        args == InitArgs(user, app_id, triggered_from)
    IN  /\ wf_executions' = EmptyDict
        /\ wf_saved' = EmptyDict
        /\ IF repo_mode = "memory"
           THEN /\ wf_scope' = made
                /\ last' = Call("create_workflow_execution_repository", "memory",
                                setting, <<args>>,
                                IF made = <<>> THEN "ValueError" ELSE "",
                                IF made = <<>> THEN <<>>
                                ELSE <<MemoryStore(user, app_id, triggered_from)>>)
           ELSE /\ wf_scope' = <<>>
                /\ last' = Call("create_workflow_execution_repository", "sqlalchemy",
                                setting, <<args>>, "",
                                <<SQLAlchemyStore(session_factory, user, app_id,
                                                  triggered_from)>>)
        /\ UNCHANGED <<executions, workflow_run_index, saved, scope, storeB, threads>>

\* create_workflow_node_execution_repository; a DifyConfig without
\* WORKFLOW_NODE_EXECUTION_REPO_MODE makes line 44 raise AttributeError
CreateWorkflowNodeExecutionRepository(setting, session_factory, user, app_id, triggered_from) ==
    LET made == ConstructScope(user, app_id, triggered_from)
        args == InitArgs(user, app_id, triggered_from)
    IN  /\ executions' = EmptyDict
        /\ workflow_run_index' = EmptyDict
        /\ saved' = EmptyDict
        /\ IF setting = <<>>
           THEN /\ scope' = <<>>
                /\ last' = Call("create_workflow_node_execution_repository", "",
                                setting, <<args>>, "AttributeError", <<>>)
           ELSE IF Lower(setting[1]) = MEMORY
           THEN /\ scope' = made
                /\ last' = Call("create_workflow_node_execution_repository", "memory",
                                setting, <<args>>,
                                IF made = <<>> THEN "ValueError" ELSE "",
                                IF made = <<>> THEN <<>>
                                ELSE <<MemoryStore(user, app_id, triggered_from)>>)
           ELSE /\ scope' = <<>>
                /\ last' = Call("create_workflow_node_execution_repository",
                                "sqlalchemy", setting, <<args>>, "",
                                <<SQLAlchemyStore(session_factory, user, app_id,
                                                  triggered_from)>>)
        /\ UNCHANGED <<wf_executions, wf_saved, wf_scope, storeB, threads>>

(***************************************************************************)
(* save and clear, statement by statement, called from several threads     *)
(***************************************************************************)
\* pc[t] names the line of the source thread t runs next: "s86" .. "s94" in
\* save, "c196" .. "c198" in clear, "r153" in get_by_workflow_run; "idle"
\* before a call, "done" after its last statement, "failed" after a KeyError.
\* The tests of lines 85 and 89 read only the argument and are taken with
\* the statement that follows them.
storeOthers == <<wf_executions, wf_saved, storeB, scopes>>

\* thread u has passed the membership test for the id and run of r and has
\* not appended yet
AtAppend(u, r) ==
    /\ pc[u] = "s94"
    /\ hand[u][1].node_execution_id = r.node_execution_id
    /\ hand[u][1].workflow_execution_id = r.workflow_execution_id

\* thread t is past the upsert of its save and before its end
Between(t) == pc[t] \in {"s90", "s91", "s93", "s94"}

\* a membership test that always lets the append happen
NotInBucketAlways(idx, r) == TRUE

\* line 93: execution.node_execution_id not in self._workflow_run_index[k]
NotInBucket(idx, r) ==
    ~InList(r.node_execution_id, idx[r.workflow_execution_id])

\* line 91 left out
CreateBucketOmitted(idx, k) == idx

\* line 91: self._workflow_run_index[k] = []
CreateBucket(idx, k) == DictSet(idx, k, <<>>)

\* a thread calls save(r); with locked, the call waits for the lock and takes it
StartSave(t, r, locked) ==
    /\ pc[t] = "idle"
    /\ locked => lock = ""
    /\ lock' = IF locked THEN t ELSE lock
    /\ pc' = [pc EXCEPT ![t] = "s86"]
    /\ hand' = [hand EXCEPT ![t] = <<r>>]
    /\ UNCHANGED <<executions, workflow_run_index, saved, last, raced, cut, storeOthers>>

\* lines 85-86 (and the test of line 89)
SaveUpsert(t) ==
    /\ pc[t] = "s86"
    /\ LET r == hand[t][1]
       IN  /\ executions' = SaveExecutions(executions, r)
           /\ saved' = Remember(saved, r.node_execution_id, r)
           /\ pc' = [pc EXCEPT ![t] =
                        IF Truthy(r.node_execution_id) /\ Truthy(r.workflow_execution_id)
                        THEN "s90" ELSE "done"]
    /\ UNCHANGED <<workflow_run_index, last, hand, lock, raced, cut, storeOthers>>

\* line 90
SaveTestBucket(t) ==
    /\ pc[t] = "s90"
    /\ pc' = [pc EXCEPT ![t] =
                 IF hand[t][1].workflow_execution_id \in DOMAIN workflow_run_index
                 THEN "s93" ELSE "s91"]
    /\ UNCHANGED <<executions, workflow_run_index, saved, last, hand, lock, raced, cut,
                   storeOthers>>

\* line 91
SaveCreateBucket(t) ==
    /\ pc[t] = "s91"
    /\ workflow_run_index' =
          CreateBucket(workflow_run_index, hand[t][1].workflow_execution_id)
    /\ pc' = [pc EXCEPT ![t] = "s93"]
    /\ UNCHANGED <<executions, saved, last, hand, lock, raced, cut, storeOthers>>

\* line 93; the subscript raises KeyError when the bucket is gone
SaveTestMember(t) ==
    /\ pc[t] = "s93"
    /\ LET r == hand[t][1]
       IN  IF r.workflow_execution_id \notin DOMAIN workflow_run_index
           THEN /\ pc' = [pc EXCEPT ![t] = "failed"]
                /\ raced' = raced
           ELSE IF NotInBucket(workflow_run_index, r)
           THEN /\ pc' = [pc EXCEPT ![t] = "s94"]
                /\ raced' = (raced \/ \E u \in Savers \ {t} : AtAppend(u, r))
           ELSE /\ pc' = [pc EXCEPT ![t] = "done"]
                /\ raced' = raced
    /\ UNCHANGED <<executions, workflow_run_index, saved, last, hand, lock, cut,
                   storeOthers>>

\* line 94; the subscript raises KeyError when the bucket is gone
SaveAppend(t) ==
    /\ pc[t] = "s94"
    /\ LET r == hand[t][1]
           k == r.workflow_execution_id
       IN  IF k \notin DOMAIN workflow_run_index
           THEN /\ pc' = [pc EXCEPT ![t] = "failed"]
                /\ workflow_run_index' = workflow_run_index
           ELSE /\ pc' = [pc EXCEPT ![t] = "done"]
                /\ workflow_run_index' =
                      DictSet(workflow_run_index, k,
                              Append(workflow_run_index[k], r.node_execution_id))
    /\ UNCHANGED <<executions, saved, last, hand, lock, raced, cut, storeOthers>>

\* a thread calls clear()
StartClear(locked) ==
    /\ pc[Clearer] = "idle"
    /\ locked => lock = ""
    /\ lock' = IF locked THEN Clearer ELSE lock
    /\ pc' = [pc EXCEPT ![Clearer] = "c196"]
    /\ UNCHANGED <<executions, workflow_run_index, saved, last, hand, raced, cut,
                   storeOthers>>

\* line 196
ClearCount ==
    /\ pc[Clearer] = "c196"
    /\ last' = [Call("clear", "", NoOrder, <<>>, "", <<>>)
                    EXCEPT !.count = Cardinality(DOMAIN executions)]
    /\ pc' = [pc EXCEPT ![Clearer] = "c197"]
    /\ UNCHANGED <<executions, workflow_run_index, saved, hand, lock, raced, cut,
                   storeOthers>>

\* line 197
ClearExecutions ==
    /\ pc[Clearer] = "c197"
    /\ executions' = EmptyDict
    /\ saved' = EmptyDict
    /\ cut' = (cut \/ \E t \in Savers : Between(t))
    /\ pc' = [pc EXCEPT ![Clearer] = "c198"]
    /\ UNCHANGED <<workflow_run_index, last, hand, lock, raced, storeOthers>>

\* line 198
ClearIndex ==
    /\ pc[Clearer] = "c198"
    /\ workflow_run_index' = EmptyDict
    /\ cut' = (cut \/ \E t \in Savers : Between(t))
    /\ pc' = [pc EXCEPT ![Clearer] = "done"]
    /\ UNCHANGED <<executions, saved, last, hand, lock, raced, storeOthers>>

\* a thread calls get_by_workflow_run under the lock
StartRead ==
    /\ pc[Reader] = "idle"
    /\ lock = ""
    /\ lock' = Reader
    /\ pc' = [pc EXCEPT ![Reader] = "r153"]
    /\ UNCHANGED <<executions, workflow_run_index, saved, last, hand, raced, cut,
                   storeOthers>>

\* lines 153-172, which only read the two dictionaries
DoRead(k) ==
    /\ pc[Reader] = "r153"
    /\ LET got == GetByWorkflowRun(executions, workflow_run_index, k, NoOrder)
       IN  last' = Call("get_by_workflow_run", k, NoOrder, <<>>, got.err, got.ret)
    /\ pc' = [pc EXCEPT ![Reader] = "done"]
    /\ UNCHANGED <<executions, workflow_run_index, saved, hand, lock, raced, cut,
                   storeOthers>>

\* the call of thread t returns and gives the lock back
Return(t) ==
    /\ pc[t] = "done"
    /\ lock = t
    /\ lock' = ""
    /\ pc' = [pc EXCEPT ![t] = "idle"]
    /\ hand' = [u \in Savers |-> IF u = t THEN <<>> ELSE hand[u]]
    /\ UNCHANGED <<executions, workflow_run_index, saved, last, raced, cut, storeOthers>>

(***************************************************************************)
(* The second instances: their methods, and the factory calls making them  *)
(***************************************************************************)
WfSaveB(e) ==
    /\ wf_executions_b' = WfSaveExecutions(wf_executions_b, e)
    /\ last' = [Call("wf_save", e.id_, NoOrder, <<e>>, "", <<>>) EXCEPT !.on = "b"]
    /\ UNCHANGED <<executions, workflow_run_index, saved, wf_executions, wf_saved,
                   executions_b, workflow_run_index_b, scopes, threads>>

WfReadB(id) ==
    /\ last' = [Call("wf_get", id, NoOrder, <<>>, "", WfGet(wf_executions_b, id))
                    EXCEPT !.on = "b"]
    /\ UNCHANGED <<executions, workflow_run_index, saved, wf_executions, wf_saved,
                   storeB, scopes, threads>>

\* create_workflow_node_execution_repository in memory mode, its result held
\* as the second instance
CreateWorkflowNodeExecutionRepositoryB(setting, user, app_id, triggered_from) ==
    /\ setting # <<>>
    /\ Lower(setting[1]) = MEMORY
    /\ ConstructScope(user, app_id, triggered_from) # <<>>
    /\ executions_b' = EmptyDict
    /\ workflow_run_index_b' = EmptyDict
    /\ last' = [Call("create_workflow_node_execution_repository", "memory", setting,
                     <<InitArgs(user, app_id, triggered_from)>>, "",
                     <<MemoryStore(user, app_id, triggered_from)>>)
                    EXCEPT !.on = "b"]
    /\ UNCHANGED <<executions, workflow_run_index, saved, wf_executions, wf_saved,
                   wf_executions_b, scopes, threads>>

\* create_workflow_execution_repository in memory mode, its result held as
\* the second instance
CreateWorkflowExecutionRepositoryB(setting, user, app_id, triggered_from) ==
    /\ setting # <<>>
    /\ Lower(setting[1]) = "memory"
    /\ ConstructScope(user, app_id, triggered_from) # <<>>
    /\ wf_executions_b' = EmptyDict
    /\ last' = [Call("create_workflow_execution_repository", "memory", setting,
                     <<InitArgs(user, app_id, triggered_from)>>, "",
                     <<MemoryStore(user, app_id, triggered_from)>>)
                    EXCEPT !.on = "b"]
    /\ UNCHANGED <<executions, workflow_run_index, saved, wf_executions, wf_saved,
                   executions_b, workflow_run_index_b, scopes, threads>>

\* __init__, lines 66-72 of both repositories
Init ==
    /\ executions = EmptyDict
    /\ workflow_run_index = EmptyDict
    /\ wf_executions = EmptyDict
    /\ saved = EmptyDict
    /\ wf_saved = EmptyDict
    /\ last = Call("init", "", NoOrder, <<>>, "", <<>>)
    /\ executions_b = EmptyDict
    /\ workflow_run_index_b = EmptyDict
    /\ wf_executions_b = EmptyDict
    /\ scope = FixtureScope
    /\ wf_scope = FixtureScope
    /\ pc = [t \in Threads |-> "idle"]
    /\ hand = [t \in Savers |-> <<>>]
    /\ lock = ""
    /\ raced = FALSE
    /\ cut = FALSE

(***************************************************************************)
(* Spec: one node store, records of any run                                *)
(***************************************************************************)
RunOrders == {NoOrder, <<OrderConfig(<<>>, "asc")>>,
              <<OrderConfig(<<"node_execution_id">>, "desc")>>}

SaveAny == \E r \in NodeRecords : Save(r)
GetNode == \E id \in NodeIds \cup {""} : ReadNodeExecution(id)
GetRun == \E k \in RunIds \cup {""}, oc \in RunOrders : ReadWorkflowRun(k, oc)

Next == SaveAny \/ GetNode \/ GetRun \/ Clear

Spec == Init /\ [][Next]_vars

(***************************************************************************)
(* SpecPoint: both stores; the records of one run, their content varies    *)
(***************************************************************************)
PointRecords ==
    {NodeRecord(id, "r1", 1, "llm", st) : id \in NodeIds \cup {""}, st \in Statuses}

SavePoint == \E r \in PointRecords : Save(r)
WfSaveAny == \E e \in ExecRecords : WfSave(e)
WfGetAny == \E id \in ExecIds \cup {""} : WfRead(id)

GetRunPoint == \E k \in RunIds \cup {""} : ReadWorkflowRun(k, NoOrder)
GetRunning == \E k \in RunIds \cup {""} : ReadRunning(k)

NextPoint == SavePoint \/ GetNode \/ GetRunPoint \/ GetRunning \/ WfSaveAny \/ WfGetAny

SpecPoint == Init /\ [][NextPoint]_vars

(***************************************************************************)
(* SpecSort: one node store, the records of one run, ordered reads         *)
(***************************************************************************)
SortRun == "r1"
SortRecords ==
    {NodeRecord(id, SortRun, idx, typ, RUNNING) :
        id \in NodeIds, idx \in Indexes, typ \in NodeTypes}

SortOrders ==
    {NoOrder} \cup
    {<<OrderConfig(by, dir)>> :
        by \in {<<"index">>, <<"node_type", "index">>, <<"index", "node_type">>,
                <<"non_existent_field">>},
        dir \in {"asc", "desc"}}

SaveSort == \E r \in SortRecords : Save(r)
GetSorted == \E oc \in SortOrders : ReadWorkflowRun(SortRun, oc)

NextSort == SaveSort \/ GetSorted

SpecSort == Init /\ [][NextSort]_vars

(***************************************************************************)
(* Properties                                                              *)
(***************************************************************************)
\* the ids of the stored records whose workflow_execution_id is k
Stored(k) == {n \in DOMAIN executions : executions[n].workflow_execution_id = k}

Bucket(k) == BucketOf(workflow_run_index, k)
Position(n, s) == CHOOSE i \in 1..Len(s) : s[i] = n
NoDuplicates(s) == \A i, j \in 1..Len(s) : s[i] = s[j] => i = j

\* ret holds every stored record of run k once, and nothing else
HoldsStoredOnce(ret, k) ==
    /\ Len(ret) = Cardinality(Stored(k))
    /\ \A n \in Stored(k) : \E i \in 1..Len(ret) : ret[i] = executions[n]
    /\ \A i \in 1..Len(ret) :
          /\ ret[i].node_execution_id \in Stored(k)
          /\ ret[i] = executions[ret[i].node_execution_id]

\* C1: after any saves and clears, get_by_workflow_run(k), for every run id
\* k and every order configuration, returns each stored record whose
\* workflow_execution_id is k exactly once and no other record.
C1_RunHoldsStoredOnce ==
    /\ \A k \in RunIds, oc \in RunOrders :
          LET got == GetByWorkflowRun(executions, workflow_run_index, k, oc)
          IN  got.err = "" /\ HoldsStoredOnce(got.ret, k)
    /\ (last.op = "get_by_workflow_run" /\ last.key \in RunIds)
          => (last.err = "" /\ HoldsStoredOnce(last.ret, last.key))

\* a read of run r2 that returns one record while the bucket of r2 also holds
\* the id of a record that was moved to another run
C1_Witness ==
    /\ last.op = "get_by_workflow_run"
    /\ last.key = "r2"
    /\ Len(last.ret) = 1
    /\ Len(Bucket("r2")) = 2
    /\ \E n \in NodeIds : InList(n, Bucket("r1")) /\ InList(n, Bucket("r2"))

\* C2: in every reachable state the bucket of every run id k holds exactly
\* the ids of the stored records whose workflow_execution_id is k, each once
\* (no stale id stays in the old bucket after a re-save under another run).
C2_IndexExact ==
    \A k \in RunIds :
        /\ {Bucket(k)[i] : i \in 1..Len(Bucket(k))} = Stored(k)
        /\ NoDuplicates(Bucket(k))

\* C3: a save of an id already stored under the same workflow_execution_id
\* replaces the primary-map entry by the new record and leaves the index as
\* it was, the id once in its bucket.
C3_ResaveKeepsBucket ==
    [][(/\ last'.op = "save"
        /\ last'.key \in DOMAIN executions
        /\ executions[last'.key].workflow_execution_id
              = last'.arg[1].workflow_execution_id)
       => (/\ workflow_run_index' = workflow_run_index
           /\ executions'[last'.key] = last'.arg[1]
           /\ GetByNodeExecutionId(executions', last'.key) = last'.arg
           /\ LET bucket == BucketOf(workflow_run_index',
                                     last'.arg[1].workflow_execution_id)
              IN  Cardinality({i \in 1..Len(bucket) : bucket[i] = last'.key}) = 1)]_vars

\* the latest call re-saved, with a new status, the id that was indexed
\* before another one
C3_Witness ==
    /\ last.op = "save"
    /\ Len(Bucket("r1")) = 2
    /\ Bucket("r1")[1] = last.key
    /\ last.arg[1].status = SUCCEEDED
    /\ executions[last.key] = last.arg[1]

\* C4: in both stores a point lookup returns the record of the latest save
\* under that identity, and nothing for an identity never saved.
C4_LastWriteWins ==
    /\ \A id \in ExecIds \cup {""} : WfGet(wf_executions, id) = DictGet(wf_saved, id)
    /\ \A id \in NodeIds \cup {""} :
          GetByNodeExecutionId(executions, id) = DictGet(saved, id)
    /\ last.op = "wf_get" => last.ret = DictGet(wf_saved, last.key)
    /\ last.op = "get_by_node_execution_id" => last.ret = DictGet(saved, last.key)

\* a lookup in the execution store returns a SUCCEEDED record while the node
\* store holds records too
C4_Witness ==
    /\ last.op = "wf_get"
    /\ last.ret # <<>>
    /\ last.ret[1].status = SUCCEEDED
    /\ \E n \in NodeIds : GetByNodeExecutionId(executions, n) # <<>>

\* C5: a save of a record with an empty identity raises nothing and changes
\* neither primary map nor the index, also when the record names a run.
C5_EmptyIdentityNoOp ==
    [][(last'.op \in {"save", "wf_save"} /\ last'.key = "")
       => (/\ last'.err = ""
           /\ executions' = executions
           /\ workflow_run_index' = workflow_run_index
           /\ wf_executions' = wf_executions)]_vars

\* a record without identity, naming run r1, was saved and r1 has no bucket
C5_Witness ==
    /\ last.op = "save"
    /\ last.key = ""
    /\ last.arg[1].workflow_execution_id = "r1"
    /\ "r1" \notin DOMAIN workflow_run_index
    /\ executions = EmptyDict

\* the unordered run result restricted to the ids whose latest save was RUNNING
RunningBySaves(k) ==
    SelectSeq(GetByWorkflowRun(executions, workflow_run_index, k, NoOrder).ret,
              LAMBDA x : saved[x.node_execution_id].status = RUNNING)

\* C6: get_running_executions(k) returns, in the same order, the records of
\* get_by_workflow_run(k) whose most recently saved status is RUNNING.
C6_RunningOnly ==
    /\ \A k \in RunIds \cup {""} :
          GetRunningExecutions(executions, workflow_run_index, k) = RunningBySaves(k)
    /\ last.op = "get_running_executions" => last.ret = RunningBySaves(last.key)

\* of two indexed records the first is no longer RUNNING and only the second
\* is returned
C6_Witness ==
    /\ last.op = "get_running_executions"
    /\ last.key = "r1"
    /\ Len(Bucket("r1")) = 2
    /\ Len(last.ret) = 1
    /\ last.ret[1].node_execution_id = Bucket("r1")[2]

NothingStored ==
    /\ executions = EmptyDict
    /\ workflow_run_index = EmptyDict
    /\ \A k \in RunIds \cup {""}, oc \in RunOrders :
          GetByWorkflowRun(executions, workflow_run_index, k, oc).ret = <<>>
    /\ \A id \in NodeIds \cup {""} : GetByNodeExecutionId(executions, id) = <<>>

\* C7: after clear() the primary map and the index are empty and every read
\* returns nothing, and this stays so until the next save.
C7_ClearEmpties ==
    [][/\ last'.op = "clear" => NothingStored'
       /\ (NothingStored /\ last'.op # "save") => NothingStored']_vars

\* clear() removed two records
C7_Witness ==
    /\ last.op = "clear"
    /\ last.count = 2
    /\ executions = EmptyDict
    /\ workflow_run_index = EmptyDict

ByIndex(dir) == <<OrderConfig(<<"index">>, dir)>>

\* a and b hold the same records (records differ by node_execution_id)
SameRecords(a, b) ==
    /\ Len(a) = Len(b)
    /\ \A i \in 1..Len(a) : \E j \in 1..Len(b) : a[i] = b[j]
    /\ \A j \in 1..Len(b) : \E i \in 1..Len(a) : a[i] = b[j]

Unordered(k) == GetByWorkflowRun(executions, workflow_run_index, k, NoOrder).ret

\* C8: get_by_workflow_run(k, order_by=["index"], "asc") returns without
\* error, for any index values (0 included), a permutation of the unordered
\* result that is non-decreasing in index.
C8_IndexAscending ==
    (last.op = "get_by_workflow_run" /\ last.order = ByIndex("asc"))
    => (/\ last.err = ""
        /\ SameRecords(last.ret, Unordered(last.key))
        /\ \A i, j \in 1..Len(last.ret) :
              i < j => last.ret[i].index <= last.ret[j].index)

\* C9, as claimed: the sequence returned for direction desc is the reverse of
\* the one returned for asc, for every set of stored records.
C9_DescIsReverse ==
    (last.op = "get_by_workflow_run" /\ last.order = ByIndex("desc") /\ last.err = "")
    => LET asc == GetByWorkflowRun(executions, workflow_run_index, last.key,
                                   ByIndex("asc"))
       IN  asc.err = "" /\ last.ret = Reverse(asc.ret)

DistinctIndexes(k) ==
    \A n, m \in Stored(k) : n # m => executions[n].index # executions[m].index

\* C9, amended: when no two stored records of the run share an index, the
\* calls for desc and asc fail alike, and when they return the desc sequence
\* is the reverse of the asc sequence.
C9_DescIsReverseDistinct ==
    (/\ last.op = "get_by_workflow_run"
     /\ last.order = ByIndex("desc")
     /\ DistinctIndexes(last.key))
    => LET asc == GetByWorkflowRun(executions, workflow_run_index, last.key,
                                   ByIndex("asc"))
       IN  /\ last.err = asc.err
           /\ last.err = "" => last.ret = Reverse(asc.ret)

\* a desc read put the record that was indexed second, of larger index, first
C9_Witness ==
    /\ last.op = "get_by_workflow_run"
    /\ last.order = ByIndex("desc")
    /\ last.err = ""
    /\ Len(last.ret) = 2
    /\ last.ret[1].index > last.ret[2].index
    /\ Bucket(last.key)[1] = last.ret[2].node_execution_id

\* the order of the attribute values themselves (int by <, str by str order)
ValueLess(x, y, f) ==
    IF f \in IntFields THEN x[f] < y[f] ELSE StrRank(x[f]) < StrRank(y[f])

RECURSIVE LexLess(_, _, _)
LexLess(x, y, by) ==
    IF by = <<>> THEN FALSE
    ELSE \/ ValueLess(x, y, Head(by))
         \/ ~ValueLess(y, x, Head(by)) /\ LexLess(x, y, Tail(by))

TieOnAll(x, y, by) == ~LexLess(x, y, by) /\ ~LexLess(y, x, by)

LexOrdered(ret, k, oc) ==
    /\ SameRecords(ret, Unordered(k))
    /\ \A i, j \in 1..Len(ret) :
          i < j =>
            /\ IF oc.order_direction = "desc"
               THEN ~LexLess(ret[i], ret[j], oc.order_by)
               ELSE ~LexLess(ret[j], ret[i], oc.order_by)
            /\ TieOnAll(ret[i], ret[j], oc.order_by)
                  => Position(ret[i].node_execution_id, Bucket(k))
                        < Position(ret[j].node_execution_id, Bucket(k))

\* the order configurations that name attributes of the record only
KnownFieldOrders ==
    {oc \in SortOrders \ {NoOrder} :
        \A i \in 1..Len(oc[1].order_by) :
            oc[1].order_by[i] \in DOMAIN NodeRecord("", "", 0, "", "")}

\* C10: with order_by = [f1, f2, ...] the result is in lexicographic order of
\* (f1, f2, ...), non-decreasing for asc and non-increasing for desc, and
\* records that tie on every field keep their insertion order.
C10_MultiKeyOrder ==
    /\ \A oc \in KnownFieldOrders :
          LET got == GetByWorkflowRun(executions, workflow_run_index, SortRun, oc)
          IN  got.err = "" => LexOrdered(got.ret, SortRun, oc[1])
    /\ (last.op = "get_by_workflow_run" /\ last.order \in KnownFieldOrders
            /\ last.err = "")
          => LexOrdered(last.ret, last.key, last.order[1])

\* a read ordered by node_type, index (desc) of two records of one node type
\* put the record that was indexed second first
C10_Witness ==
    /\ last.op = "get_by_workflow_run"
    /\ last.order = <<OrderConfig(<<"node_type", "index">>, "desc")>>
    /\ last.err = ""
    /\ Len(last.ret) = 2
    /\ last.ret[1].node_type = last.ret[2].node_type
    /\ last.ret[1].index > last.ret[2].index
    /\ Bucket(last.key)[1] = last.ret[2].node_execution_id

(***************************************************************************)
(* SpecNone: one node store, the records of one run with attributes that   *)
(* may be None, reads ordered by such an attribute                         *)
(***************************************************************************)
NoneRecords ==
    {[NodeRecord(id, SortRun, 1, "llm", SUCCEEDED)
        EXCEPT !.predecessor_node_id = pred, !.finished_at = fin] :
        id \in NodeIds, pred \in {None, "n1"},
        fin \in {<<>>} \cup {<<t>> : t \in TimeStamps}}

NoneOrders ==
    {<<OrderConfig(<<f>>, dir)>> :
        f \in {"predecessor_node_id", "finished_at"}, dir \in {"asc", "desc"}}

SaveNone == \E r \in NoneRecords : Save(r)
GetNoneOrdered == \E oc \in NoneOrders : ReadWorkflowRun(SortRun, oc)

NextNone == SaveNone \/ GetNoneOrdered

SpecNone == Init /\ [][NextNone]_vars

\* C11: ordering by an attribute that is None on some stored records and set
\* on others never fails, for a string attribute (predecessor_node_id) as for
\* a timestamp (finished_at): all matching records are returned.
C11_NoneNeverFails ==
    (last.op = "get_by_workflow_run" /\ last.order \in NoneOrders)
    => (last.err = "" /\ SameRecords(last.ret, Unordered(last.key)))

\* C12: ordering by a field name the record does not have raises nothing and
\* returns, for asc and desc, the sequence of the unordered call.
C12_UnknownFieldNoOp ==
    /\ \A dir \in {"asc", "desc"}, k \in {SortRun, "r2", ""} :
          LET got == GetByWorkflowRun(executions, workflow_run_index, k,
                         <<OrderConfig(<<"non_existent_field">>, dir)>>)
          IN  got.err = "" /\ got.ret = Unordered(k)
    /\ (/\ last.op = "get_by_workflow_run"
        /\ last.order # NoOrder
        /\ last.order[1].order_by = <<"non_existent_field">>)
          => (last.err = "" /\ last.ret = Unordered(last.key))

\* a desc read by the unknown field returned two records in bucket order
C12_Witness ==
    /\ last.op = "get_by_workflow_run"
    /\ last.order = <<OrderConfig(<<"non_existent_field">>, "desc")>>
    /\ last.err = ""
    /\ Len(last.ret) = 2
    /\ last.ret[1].node_execution_id = Bucket(last.key)[1]
    /\ last.ret[1].index < last.ret[2].index

IsPrefix(a, b) == Len(a) <= Len(b) /\ SubSeq(b, 1, Len(a)) = a

NoOrdering(oc) == oc = NoOrder \/ oc[1].order_by = <<>>

\* the records of ret come in the order of their ids in the bucket of k
InBucketOrder(ret, k) ==
    \A i, j \in 1..Len(ret) :
        i < j => Position(ret[i].node_execution_id, Bucket(k))
                    < Position(ret[j].node_execution_id, Bucket(k))

UnorderedReadInBucketOrder ==
    (last.op = "get_by_workflow_run" /\ NoOrdering(last.order))
    => (/\ last.err = ""
        /\ IF Truthy(last.key)
           THEN HoldsStoredOnce(last.ret, last.key)
           ELSE last.ret = <<>>
        /\ InBucketOrder(last.ret, last.key))

\* C13: without order_config, or with an empty order_by, get_by_workflow_run
\* returns the records in the order in which their ids were first saved under
\* the run since the last clear: a save puts an id that is new to the run
\* behind the ids already there, and moves no id that is there.
C13_InsertionOrder ==
    [][/\ UnorderedReadInBucketOrder'
       /\ last'.op # "clear" =>
             \A k \in RunIds : IsPrefix(Bucket(k), BucketOf(workflow_run_index', k))
       /\ (/\ last'.op = "save"
           /\ Truthy(last'.key)
           /\ Truthy(last'.arg[1].workflow_execution_id)
           /\ ~InList(last'.key, Bucket(last'.arg[1].workflow_execution_id)))
          => BucketOf(workflow_run_index', last'.arg[1].workflow_execution_id)
                = Append(Bucket(last'.arg[1].workflow_execution_id), last'.key)]_vars

\* a read with an empty order_by returned the two records of run r1, of
\* which the second was indexed under r2 before it was under r1
C13_Witness ==
    /\ last.op = "get_by_workflow_run"
    /\ last.order = <<OrderConfig(<<>>, "asc")>>
    /\ last.key = "r1"
    /\ Len(last.ret) = 2
    /\ last.ret[1].node_execution_id = Bucket("r1")[1]
    /\ Bucket("r2") = <<last.ret[2].node_execution_id>>

(***************************************************************************)
(* SpecAdhoc: one node store, records of run r1 and records of no run      *)
(* (workflow_execution_id None or ""), reads with any key                  *)
(***************************************************************************)
AdhocKeys == {"r1", "", None}

AdhocRecords ==
    {NodeRecord(id, run, 1, "llm", st) :
        id \in NodeIds, run \in AdhocKeys, st \in Statuses}

SaveAdhoc == \E r \in AdhocRecords : Save(r)
GetRunAdhoc == \E k \in AdhocKeys : ReadWorkflowRun(k, NoOrder)
GetRunningAdhoc == \E k \in AdhocKeys : ReadRunning(k)

NextAdhoc == SaveAdhoc \/ GetNode \/ GetRunAdhoc \/ GetRunningAdhoc

SpecAdhoc == Init /\ [][NextAdhoc]_vars

\* the stored records of no run are found by their id and by no run read
NoRunHidden ==
    /\ \A k \in DOMAIN workflow_run_index : Truthy(k)
    /\ \A n \in DOMAIN executions :
          ~Truthy(executions[n].workflow_execution_id) =>
            /\ GetByNodeExecutionId(executions, n) = <<executions[n]>>
            /\ \A k \in AdhocKeys :
                  /\ ~InList(executions[n], Unordered(k))
                  /\ ~InList(executions[n],
                             GetRunningExecutions(executions, workflow_run_index, k))
    /\ last.op \in {"get_by_workflow_run", "get_running_executions"} =>
          \A i \in 1..Len(last.ret) : Truthy(last.ret[i].workflow_execution_id)

\* C20: a record with an identity and no workflow_execution_id is stored and
\* found by get_by_node_execution_id, its save adds it to no bucket, and no
\* get_by_workflow_run or get_running_executions returns it, whatever the
\* key (an empty or absent key included).
C20_NoRunNeverIndexed ==
    [][/\ (/\ last'.op = "save"
           /\ Truthy(last'.key)
           /\ ~Truthy(last'.arg[1].workflow_execution_id))
          => (/\ workflow_run_index' = workflow_run_index
              /\ GetByNodeExecutionId(executions', last'.key) = last'.arg)
       /\ NoRunHidden']_vars

\* a read with the key None returned nothing while a running record whose
\* workflow_execution_id is None is stored, its id still in the bucket of r1
C20_Witness ==
    /\ last.op = "get_running_executions"
    /\ last.key = None
    /\ last.ret = <<>>
    /\ \E n \in DOMAIN executions :
          /\ executions[n].workflow_execution_id = None
          /\ executions[n].status = RUNNING
          /\ InList(n, Bucket("r1"))

(***************************************************************************)
(* SpecTwo: two node store instances of one process                        *)
(***************************************************************************)
TwoRecords == {NodeRecord(id, "r1", 1, "llm", RUNNING) : id \in NodeIds}

SaveOnA == \E r \in TwoRecords : Save(r)
SaveOnB == \E r \in TwoRecords : SaveB(r)
GetNodeOnA == \E id \in NodeIds : ReadNodeExecution(id)
GetNodeOnB == \E id \in NodeIds : ReadNodeExecutionB(id)
GetRunOnA == ReadWorkflowRun("r1", NoOrder)
GetRunOnB == ReadWorkflowRunB("r1", NoOrder)

NextTwo ==
    \/ SaveOnA \/ SaveOnB
    \/ GetNodeOnA \/ GetNodeOnB
    \/ GetRunOnA \/ GetRunOnB
    \/ Clear \/ ClearB

SpecTwo == Init /\ [][NextTwo]_vars

\* every read on the second instance returns nothing
ReadsNothingB ==
    /\ \A id \in NodeIds : GetByNodeExecutionId(executions_b, id) = <<>>
    /\ \A k \in RunIds :
          GetByWorkflowRun(executions_b, workflow_run_index_b, k, NoOrder).ret = <<>>
ReadsNothingA ==
    /\ \A id \in NodeIds : GetByNodeExecutionId(executions, id) = <<>>
    /\ \A k \in RunIds :
          GetByWorkflowRun(executions, workflow_run_index, k, NoOrder).ret = <<>>

InitUsers ==
    {Account("u1", t) : t \in {None, "", "t1"}} \cup
    {EndUser("u2", t) : t \in {None, "", "t2"}}
NodeContexts == {<<None, None>>, <<"app1", None>>, <<"app1", "workflow-run">>}
WfContexts == {<<None, None>>, <<"app1", None>>, <<"app1", "app-run">>}
InitRecord == NodeRecord("n1", "r1", 1, "llm", RUNNING)
InitExecRecord == ExecRecord("e1", RUNNING)

\* before any constructor call there is no store
InitNone ==
    /\ executions = EmptyDict
    /\ workflow_run_index = EmptyDict
    /\ wf_executions = EmptyDict
    /\ saved = EmptyDict
    /\ wf_saved = EmptyDict
    /\ last = Call("init", "", NoOrder, <<>>, "", <<>>)
    /\ executions_b = EmptyDict
    /\ workflow_run_index_b = EmptyDict
    /\ wf_executions_b = EmptyDict
    /\ scope = <<>>
    /\ wf_scope = <<>>
    /\ pc = [t \in Threads |-> "idle"]
    /\ hand = [t \in Savers |-> <<>>]
    /\ lock = ""
    /\ raced = FALSE
    /\ cut = FALSE

ConstructNode == \E u \in InitUsers, c \in NodeContexts : NewNodeStore(u, c[1], c[2])
ConstructWf == \E u \in InitUsers, c \in WfContexts : NewWfStore(u, c[1], c[2])
\* methods are called on a store that exists
SaveInit == scope # <<>> /\ Save(InitRecord)
GetNodeInit == scope # <<>> /\ ReadNodeExecution("n1")
GetRunInit == scope # <<>> /\ ReadWorkflowRun("r1", NoOrder)
ClearInit == scope # <<>> /\ Clear
WfSaveInit == wf_scope # <<>> /\ WfSave(InitExecRecord)
WfGetInit == wf_scope # <<>> /\ WfRead("e1")

NextInit ==
    \/ ConstructNode \/ ConstructWf
    \/ SaveInit \/ GetNodeInit \/ GetRunInit \/ ClearInit
    \/ WfSaveInit \/ WfGetInit

SpecInit == InitNone /\ [][NextInit]_vars

\* no non-empty tenant identifier can be resolved from the caller identity
NoTenant(user) ==
    \/ user.kind = END_USER /\ user.tenant_id \in {None, ""}
    \/ user.kind = ACCOUNT /\ user.current_tenant_id \in {None, ""}

\* C15: construction of either store fails with an error and yields no
\* store exactly when no non-empty tenant identifier can be resolved from the
\* caller identity; otherwise it succeeds and the new store starts with an
\* empty primary map (and empty index).
C15_ConstructionFailsIffNoTenant ==
    [][/\ last'.op = "__init__" =>
            LET user == last'.arg[1].user
            IN  /\ (last'.err # "") <=> NoTenant(user)
                /\ NoTenant(user) => (scope' = <<>> /\ last'.ret = <<>>)
                /\ ~NoTenant(user) =>
                      /\ scope' # <<>>
                      /\ executions' = EmptyDict
                      /\ workflow_run_index' = EmptyDict
       /\ last'.op = "wf__init__" =>
            LET user == last'.arg[1].user
            IN  /\ (last'.err # "") <=> NoTenant(user)
                /\ NoTenant(user) => (wf_scope' = <<>> /\ last'.ret = <<>>)
                /\ ~NoTenant(user) =>
                      /\ wf_scope' # <<>>
                      /\ wf_executions' = EmptyDict]_vars

\* the node store was constructed for an end-user with a tenant, and the
\* construction of the execution store for an account without a current
\* tenant has just failed
C15_Witness ==
    /\ last.op = "wf__init__"
    /\ last.err = "ValueError"
    /\ last.arg[1].user.kind = ACCOUNT
    /\ wf_scope = <<>>
    /\ scope # <<>>
    /\ scope[1].tenant_id = "t2"
    /\ executions # EmptyDict

(***************************************************************************)
(* SpecFactory: the two factories under every value of the mode setting    *)
(***************************************************************************)
Settings == {<<>>} \cup {<<m>> : m \in Modes}
FactoryUsers == {Account("u1", "t1"), Account("u1", None), EndUser("u2", "t2")}
SessionFactory == "engine"

CreateWf ==
    \E st \in Settings, u \in FactoryUsers, c \in WfContexts :
        CreateWorkflowExecutionRepository(st, SessionFactory, u, c[1], c[2])
CreateNode ==
    \E st \in Settings, u \in FactoryUsers, c \in NodeContexts :
        CreateWorkflowNodeExecutionRepository(st, SessionFactory, u, c[1], c[2])

NextFactory ==
    \/ CreateWf \/ CreateNode
    \/ SaveInit \/ GetNodeInit
    \/ WfSaveInit \/ WfGetInit

SpecFactory == InitNone /\ [][NextFactory]_vars

\* the setting equals "memory" compared case-insensitively
IsMemoryMode(setting) ==
    setting # <<>> /\ setting[1] \in {"memory", "MEMORY", "Memory"}

\* the store returned is of the class named, and was given the user, app_id
\* and triggered_from of the call
ReturnsStore(call, backend) ==
    /\ Len(call.ret) = 1
    /\ call.ret[1].backend = backend
    /\ call.ret[1].user = call.arg[1].user
    /\ call.ret[1].app_id = call.arg[1].app_id
    /\ call.ret[1].triggered_from = call.arg[1].triggered_from

IsFactoryCall(call) ==
    call.op \in {"create_workflow_execution_repository",
                 "create_workflow_node_execution_repository"}

Quiet == \A t \in Savers \cup {Clearer} : pc[t] \in {"idle", "done", "failed"}

CallSave == \E t \in Savers, r \in TwoRecords : StartSave(t, r, FALSE)
StepUpsert == \E t \in Savers : SaveUpsert(t)
StepTestBucket == \E t \in Savers : SaveTestBucket(t)
StepCreateBucket == \E t \in Savers : SaveCreateBucket(t)
StepTestMember == \E t \in Savers : SaveTestMember(t)
StepAppend == \E t \in Savers : SaveAppend(t)
CallClear == StartClear(FALSE)
\* a read made after the calls under way have ended
ReadLater == Quiet /\ ReadWorkflowRun("r1", NoOrder)

NextConc ==
    \/ CallSave \/ StepUpsert \/ StepTestBucket \/ StepCreateBucket
    \/ StepTestMember \/ StepAppend
    \/ CallClear \/ ClearCount \/ ClearExecutions \/ ClearIndex
    \/ ReadLater

SpecConc == Init /\ [][NextConc]_vars

\* the number of times x occurs in s
Occurrences(x, s) == Cardinality({i \in 1..Len(s) : s[i] = x})

\* some bucket holds an id twice
HasDuplicate == \E k \in DOMAIN workflow_run_index : ~NoDuplicates(workflow_run_index[k])

\* C17: without a lock save is not atomic: a bucket comes to hold an id
\* twice when (and only when) two saves of that id and run interleave between
\* the membership test and the append, and get_by_workflow_run then returns
\* the record as many times as the bucket holds its id.
C17_DuplicateOnlyByRace ==
    /\ HasDuplicate => raced
    /\ \A k \in DOMAIN workflow_run_index : \A n \in Stored(k) :
          Occurrences(executions[n],
                      GetByWorkflowRun(executions, workflow_run_index, k, NoOrder).ret)
            = Occurrences(n, workflow_run_index[k])

\* both threads saved n1 under r1, the bucket holds n1 twice and the read
\* made afterwards returned the record twice
C17_Witness ==
    /\ \A t \in Savers : pc[t] = "done" /\ hand[t][1].node_execution_id = "n1"
    /\ pc[Clearer] = "idle"
    /\ raced
    /\ Bucket("r1") = <<"n1", "n1">>
    /\ last.op = "get_by_workflow_run"
    /\ last.ret = <<executions["n1"], executions["n1"]>>

\* some bucket holds an id that is no key of the primary map
Dangling ==
    \E k \in DOMAIN workflow_run_index :
        \E i \in 1..Len(workflow_run_index[k]) :
            workflow_run_index[k][i] \notin DOMAIN executions

\* C18: without a lock, clear() between the statements of a save breaks the
\* store: the save fails on the bucket clear removed, or after both calls the
\* index holds an id that has no entry in the primary map, which
\* get_by_workflow_run skips; neither happens unless a statement of clear ran
\* between the statements of a save.
C18_ClearBreaksSave ==
    /\ (\E t \in Savers : pc[t] = "failed") => cut
    /\ (Quiet /\ Dangling) => cut
    /\ \A k \in DOMAIN workflow_run_index :
          LET ret == GetByWorkflowRun(executions, workflow_run_index, k, NoOrder).ret
          IN  \A i \in 1..Len(ret) : ret[i].node_execution_id \in DOMAIN executions

\* one save failed on the removed bucket, the other left n2 in the index
\* with no record behind it, and the read afterwards returned nothing
C18_Witness ==
    /\ pc["s1"] = "failed"
    /\ pc["s2"] = "done"
    /\ pc[Clearer] = "done"
    /\ cut
    /\ Bucket("r1") = <<"n2">>
    /\ executions = EmptyDict
    /\ last.op = "get_by_workflow_run"
    /\ last.ret = <<>>

(***************************************************************************)
(* SpecLock: the same calls, each made with the store's lock held          *)
(***************************************************************************)
LockedSave == \E t \in Savers, r \in TwoRecords : StartSave(t, r, TRUE)
LockedClear == StartClear(TRUE)
Read == \E k \in RunIds : DoRead(k)
Unlock == \E t \in Threads : Return(t)

NextLock ==
    \/ LockedSave \/ StepUpsert \/ StepTestBucket \/ StepCreateBucket
    \/ StepTestMember \/ StepAppend
    \/ LockedClear \/ ClearCount \/ ClearExecutions \/ ClearIndex
    \/ StartRead \/ Read
    \/ Unlock

SpecLock == Init /\ [][NextLock]_vars

\* C19: when save, get_by_workflow_run and clear each run under one lock of
\* the store, then whatever the interleaving of the callers, in every state
\* a caller can observe (the lock is free, or the reader holds it) the
\* buckets are duplicate-free and hold only keys of the primary map, no
\* call has failed, and a get_by_workflow_run(k) returns exactly the records
\* stored under k while it holds the lock.
C19_LockedCallsAreAtomic ==
    /\ \A t \in Threads : pc[t] # "failed"
    /\ (lock \in {"", Reader}) => (~HasDuplicate /\ ~Dangling)
    /\ (lock = Reader /\ pc[Reader] = "done")
          => (last.err = "" /\ HoldsStoredOnce(last.ret, last.key))
    /\ \A t \in Threads : pc[t] # "idle" => lock = t

\* the reader holds the lock and has returned the two records the savers
\* stored, n2 first
C19_Witness ==
    /\ lock = Reader
    /\ pc[Reader] = "done"
    /\ last.key = "r1"
    /\ Len(last.ret) = 2
    /\ Bucket("r1") = <<"n2", "n1">>
    /\ DOMAIN executions = {"n1", "n2"}
    /\ raced = FALSE
    /\ cut = FALSE

(***************************************************************************)
(* SpecRead: every read of both stores, ordered reads that fail included   *)
(***************************************************************************)
\* index 0 makes a read ordered by index fail once the run has two records
ReadRecords ==
    {NodeRecord(id, run, idx, "llm", st) :
        id \in NodeIds, run \in {"r1"}, idx \in {0, 1}, st \in {RUNNING}}
ReadOrders ==
    {NoOrder, <<OrderConfig(<<"index">>, "asc")>>, <<OrderConfig(<<"index">>, "desc")>>}

SaveRead == \E r \in ReadRecords : Save(r)
GetRunRead == \E k \in RunIds, oc \in ReadOrders : ReadWorkflowRun(k, oc)

NextRead ==
    \/ SaveRead \/ GetNode \/ GetRunRead \/ GetRunning
    \/ WfSaveInit \/ WfGetInit

SpecRead == Init /\ [][NextRead]_vars

ReadOps ==
    {"get_by_node_execution_id", "get_by_workflow_run", "get_running_executions",
     "wf_get"}

\* C21: the reads of both stores (get, get_by_node_execution_id,
\* get_by_workflow_run with or without ordering and also when it fails,
\* get_running_executions) change neither a primary map nor the index: no
\* bucket is created for a run that has none, no bucket is reordered, and an
\* unordered get_by_workflow_run afterwards returns what it returned before.
C21_ReadsChangeNothing ==
    [][last'.op \in ReadOps =>
          /\ executions' = executions
          /\ workflow_run_index' = workflow_run_index
          /\ wf_executions' = wf_executions
          /\ \A k \in RunIds :
                GetByWorkflowRun(executions', workflow_run_index', k, NoOrder)
                  = GetByWorkflowRun(executions, workflow_run_index, k, NoOrder)]_vars

\* a read of r1 ordered by index has failed on two records saved in the
\* order n2, n1; run r2 has no bucket; the execution store holds a record
C21_Witness ==
    /\ last.op = "get_by_workflow_run"
    /\ last.key = "r1"
    /\ last.order # NoOrder
    /\ last.err = "TypeError"
    /\ Bucket("r1") = <<"n2", "n1">>
    /\ "r2" \notin DOMAIN workflow_run_index
    /\ wf_executions # EmptyDict

(***************************************************************************)
(* SpecExec: the execution store next to a node store that is cleared      *)
(***************************************************************************)
NextExec == WfSaveAny \/ WfGetAny \/ SaveInit \/ Clear

SpecExec == Init /\ [][NextExec]_vars

\* C22: the execution store has no deletion: an id that save has stored
\* stays stored whatever call follows (saves and reads of either store,
\* clear() of the node store), get(id) returns the record saved last under
\* it, and the number of stored ids never decreases.
C22_NoDeletion ==
    [][/\ DOMAIN wf_executions \subseteq DOMAIN wf_executions'
       /\ Cardinality(DOMAIN wf_executions') >= Cardinality(DOMAIN wf_executions)
       /\ \A id \in DOMAIN wf_saved' :
             /\ Truthy(id)
             /\ WfGet(wf_executions', id) = <<wf_saved'[id]>>
       /\ (last'.op = "wf_get" /\ last'.key \in DOMAIN wf_saved)
             => last'.ret = <<wf_saved[last'.key]>>
       /\ (last'.op = "wf_save" /\ Truthy(last'.key))
             => WfGet(wf_executions', last'.key) = last'.arg]_vars

\* the node store has just been cleared of its record, and the execution
\* store still holds both records, one of them saved a second time
C22_Witness ==
    /\ last.op = "clear"
    /\ last.count = 1
    /\ DOMAIN wf_executions = ExecIds
    /\ \E id \in ExecIds : wf_executions[id].status = SUCCEEDED
    /\ \A id \in ExecIds : WfGet(wf_executions, id) = <<wf_saved[id]>>

(***************************************************************************)
(* SpecSeq: every call of both stores, one after the other                 *)
(***************************************************************************)
SeqRecords ==
    {NodeRecord(id, "r1", idx, "llm", RUNNING) : id \in NodeIds \cup {""}, idx \in {0, 1}}
    \cup {NodeRecord(id, "", 1, "llm", RUNNING) : id \in NodeIds}

SaveSeq == \E r \in SeqRecords : Save(r)
GetRunSeq == \E oc \in ReadOrders : ReadWorkflowRun("r1", oc)

NextSeq ==
    \/ SaveSeq \/ GetNode \/ GetRunSeq \/ Clear
    \/ WfSaveInit \/ WfGetInit

SpecSeq == Init /\ [][NextSeq]_vars

\* every stored record of a run has its id in the bucket of that run
IndexedWhereStored ==
    \A n \in DOMAIN executions :
        Truthy(executions[n].workflow_execution_id)
          => InList(n, Bucket(executions[n].workflow_execution_id))

\* C23: under sequential use every call either takes its full effect or
\* leaves the primary maps and the index as they were: a save with an
\* identity stores the record and, when it has a run, has its id in that
\* run's bucket; a save without identity, a read, and a read that fails
\* change nothing; clear empties both; and after no call is a record of a
\* run in the primary map while its id is missing from the run's bucket.
C23_AllOrNothing ==
    [][/\ IndexedWhereStored'
       /\ (last'.op = "save" /\ Truthy(last'.key)) =>
             /\ GetByNodeExecutionId(executions', last'.key) = last'.arg
             /\ \A n \in DOMAIN executions' \ {last'.key} :
                   n \in DOMAIN executions /\ executions'[n] = executions[n]
             /\ Truthy(last'.arg[1].workflow_execution_id) =>
                   InList(last'.key,
                          BucketOf(workflow_run_index',
                                   last'.arg[1].workflow_execution_id))
       /\ ((last'.op = "save" /\ ~Truthy(last'.key)) \/ last'.op \in ReadOps) =>
             /\ executions' = executions
             /\ workflow_run_index' = workflow_run_index
       /\ last'.op = "clear" =>
             /\ executions' = EmptyDict
             /\ workflow_run_index' = EmptyDict
       /\ last'.op = "wf_save" =>
             /\ Truthy(last'.key) => WfGet(wf_executions', last'.key) = last'.arg
             /\ ~Truthy(last'.key) => wf_executions' = wf_executions
             /\ executions' = executions
             /\ workflow_run_index' = workflow_run_index]_vars

\* a save without identity has left as it was a store that holds one record
\* of run r1 and one record of no run whose id is still in the bucket of r1
C23_Witness ==
    /\ last.op = "save"
    /\ last.key = ""
    /\ Bucket("r1") = <<"n2", "n1">>
    /\ executions["n1"].workflow_execution_id = "r1"
    /\ executions["n2"].workflow_execution_id = ""
    /\ wf_executions # EmptyDict

\* C24: in every state reachable by save and clear, called one after the
\* other, every node_execution_id held in a bucket is a key of the primary
\* map, no bucket is empty and no bucket has an empty key: a bucket is
\* created only with its first entry, and only clear, which removes every
\* bucket, removes entries.
C24_BucketsBacked ==
    /\ ~Dangling
    /\ \A k \in DOMAIN workflow_run_index :
          /\ Truthy(k)
          /\ Len(workflow_run_index[k]) >= 1
    /\ (last.op = "clear") => (workflow_run_index = EmptyDict /\ executions = EmptyDict)

\* a save without identity for run r1 has created no bucket for r1, while
\* the bucket of r2 holds two ids
C24_Witness ==
    /\ last.op = "save"
    /\ last.key = ""
    /\ last.arg[1].workflow_execution_id = "r1"
    /\ "r1" \notin DOMAIN workflow_run_index
    /\ Len(Bucket("r2")) = 2
    /\ DOMAIN executions = NodeIds

(***************************************************************************)
(* SpecShare: two instances of each store, obtained from the factories in  *)
(* memory mode for the same user and app                                   *)
(***************************************************************************)
MemorySettings == {<<"memory">>, <<"MEMORY">>}

CreateNodeA ==
    \E st \in MemorySettings :
        CreateWorkflowNodeExecutionRepository(st, SessionFactory, FixtureUser, "app1",
                                              "workflow-run")
CreateNodeB ==
    \E st \in MemorySettings :
        CreateWorkflowNodeExecutionRepositoryB(st, FixtureUser, "app1", "workflow-run")
CreateWfA ==
    \E st \in MemorySettings :
        CreateWorkflowExecutionRepository(st, SessionFactory, FixtureUser, "app1",
                                          "app-run")
CreateWfB ==
    \E st \in MemorySettings :
        CreateWorkflowExecutionRepositoryB(st, FixtureUser, "app1", "app-run")
WfSaveOnB == WfSaveB(InitExecRecord)
WfGetOnB == WfReadB("e1")

NextShare ==
    \/ CreateNodeA \/ CreateNodeB \/ CreateWfA \/ CreateWfB
    \/ SaveOnA \/ SaveOnB \/ GetNodeOnA \/ GetNodeOnB \/ GetRunOnA \/ GetRunOnB
    \/ WfSaveInit \/ WfSaveOnB \/ WfGetInit \/ WfGetOnB

SpecShare == Init /\ [][NextShare]_vars

\* what every read of a pair of stores returns
AllReads(ex, idx, wex) ==
    [node |-> [id \in NodeIds |-> GetByNodeExecutionId(ex, id)],
     run |-> [k \in RunIds |-> GetByWorkflowRun(ex, idx, k, NoOrder)],
     running |-> [k \in RunIds |-> GetRunningExecutions(ex, idx, k)],
     wf |-> [id \in ExecIds |-> WfGet(wex, id)]]

ReadsNothing(reads) ==
    /\ \A id \in NodeIds : reads.node[id] = <<>>
    /\ \A k \in RunIds : reads.run[k].ret = <<>>

\* C25: store instances are isolated: a save on one instance (and a factory
\* call that makes one) changes the result of no read on another instance,
\* also when both are made for the same tenant and app; a store obtained
\* from a factory call in memory mode holds no record, whatever was saved
\* through a store obtained from an earlier call.
C25_InstancesIsolated ==
    [][/\ (last'.op \in {"save", "wf_save"} \cup
                       {"create_workflow_execution_repository",
                        "create_workflow_node_execution_repository"})
            => /\ last'.on = "a" =>
                     AllReads(executions_b', workflow_run_index_b', wf_executions_b')
                       = AllReads(executions_b, workflow_run_index_b, wf_executions_b)
               /\ last'.on = "b" =>
                     AllReads(executions', workflow_run_index', wf_executions')
                       = AllReads(executions, workflow_run_index, wf_executions)
       /\ last'.op = "create_workflow_node_execution_repository" =>
               /\ last'.on = "a" =>
                     ReadsNothing(AllReads(executions', workflow_run_index', wf_executions'))
               /\ last'.on = "b" =>
                     ReadsNothing(AllReads(executions_b', workflow_run_index_b',
                                         wf_executions_b'))
       /\ last'.op = "create_workflow_execution_repository" =>
               /\ last'.on = "a" => \A id \in ExecIds : WfGet(wf_executions', id) = <<>>
               /\ last'.on = "b" => \A id \in ExecIds : WfGet(wf_executions_b', id) = <<>>
      ]_vars

\* the second node store has just come from the factory and is empty while
\* the first holds two records and the first execution store holds one
C25_Witness ==
    /\ last.op = "create_workflow_node_execution_repository"
    /\ last.on = "b"
    /\ executions_b = EmptyDict
    /\ DOMAIN executions = NodeIds
    /\ Len(Bucket("r1")) = 2
    /\ wf_executions # EmptyDict
    /\ wf_executions_b = EmptyDict

\* the scope fields a constructor call with these arguments has to set
ScopeDerived(sc, args) ==
    /\ args.user.kind = END_USER => sc.tenant_id = args.user.tenant_id
    /\ args.user.kind # END_USER => sc.tenant_id = args.user.current_tenant_id
    /\ sc.creator_user_role \in {ACCOUNT, END_USER}
    /\ (sc.creator_user_role = ACCOUNT) <=> (args.user.kind = ACCOUNT)
    /\ sc.app_id = args.app_id
    /\ sc.triggered_from = args.triggered_from
    /\ sc.creator_user_id = args.user.id

\* C26: at construction of either store the tenant is the end-user's
\* tenant_id for an end-user and the account's current tenant id otherwise,
\* the creator role is ACCOUNT exactly for an account and END_USER otherwise,
\* app_id, triggered_from and the creator id are kept as given; and no later
\* call (save, a read, clear) changes a scope field.
C26_ScopeDerivation ==
    [][/\ (last'.op = "__init__" /\ last'.err = "") =>
             /\ Len(scope') = 1
             /\ ScopeDerived(scope'[1], last'.arg[1])
             /\ wf_scope' = wf_scope
       /\ (last'.op = "wf__init__" /\ last'.err = "") =>
             /\ Len(wf_scope') = 1
             /\ ScopeDerived(wf_scope'[1], last'.arg[1])
             /\ scope' = scope
       /\ last'.op \notin {"__init__", "wf__init__"} =>
             /\ scope' = scope
             /\ wf_scope' = wf_scope]_vars

\* after clear() removed a record, the node store still has the scope of
\* the end-user it was constructed for, and the execution store that of an
\* account, constructed without app and trigger
C26_Witness ==
    /\ last.op = "clear"
    /\ last.count = 1
    /\ scope = <<[tenant_id |-> "t2", app_id |-> "app1",
                  triggered_from |-> "workflow-run",
                  creator_user_id |-> "u2", creator_user_role |-> END_USER]>>
    /\ wf_scope = <<[tenant_id |-> "t1", app_id |-> None, triggered_from |-> None,
                     creator_user_id |-> "u1", creator_user_role |-> ACCOUNT]>>
    /\ wf_executions # EmptyDict
====
